---------------------------- MODULE Spec2Model ----------------------------
(***************************************************************************)
(* A model of package flac (src/flacmeta.go, lines 1-908): the FLAC        *)
(* metadata reader Metadata.Read and the per-type block decoders.          *)
(*                                                                         *)
(* Bytes are the integers 0..255 and a []byte is a sequence of bytes.      *)
(* A fixed-width unsigned word (uint16, uint32, uint64) is a sequence of   *)
(* bits, most significant bit first, so that masks, shifts and the         *)
(* truncating conversions of the Go code keep their width.                 *)
(***************************************************************************)
EXTENDS Integers, Sequences, FiniteSets, TLC

VARIABLES
    stream,   \* the bytes the io.Reader f delivers, in order
    layout,   \* how stream was put together: the blocks written into it
    pos,      \* number of bytes of stream consumed so far
    pc,       \* position of Metadata.Read: "sig", "hdr", "body", "dispatch", "done"
    meta,     \* the Metadata the Read is called on
    mbh,      \* the header decoded by the current loop iteration
    block,    \* the body bytes read by the current loop iteration
    outcome,  \* what Read ended with: "none" (running), "nil", "error", "panic"
    errsite,  \* which return statement produced the error
    nhdr,     \* number of block headers decoded without error so far
    fn,       \* pure-function harness: the decoder applied ("none" before)
    arg,      \* pure-function harness: its input bytes
    res       \* pure-function harness: its result

vars == <<stream, layout, pos, pc, meta, mbh, block, outcome, errsite, nhdr, fn, arg, res>>
readVars == <<stream, layout, pos, pc, meta, mbh, block, outcome, errsite, nhdr>>
fnVars == <<fn, arg, res>>

-----------------------------------------------------------------------------
(* Sequences, bytes and fixed-width words                                   *)

Min(a, b) == IF a < b THEN a ELSE b

Zeros(n) == [i \in 1..n |-> 0]

Pow2(n) == 2 ^ n

\* The 8 bits of a byte, most significant first.
ByteBits(b) == [i \in 1..8 |-> (b \div Pow2(8 - i)) % 2]

\* The bits of a byte slice read as one big-endian word of 8*Len(bs) bits.
BitsOf(bs) == [i \in 1..(8 * Len(bs)) |-> ByteBits(bs[((i - 1) \div 8) + 1])[((i - 1) % 8) + 1]]

\* x & m on words of equal width.
And(x, m) == [i \in 1..Len(x) |-> x[i] * m[i]]

\* x >> n (logical, the width is kept).
Shr(x, n) == [i \in 1..Len(x) |-> IF i <= n THEN 0 ELSE x[i - n]]

\* The conversion uintW(x): the low w bits of x.
Trunc(x, w) == SubSeq(x, Len(x) - w + 1, Len(x))

\* The k-th byte of a word, counted from its most significant end (0 for k < 1).
ByteAt(x, k) ==
    IF k < 1 THEN 0
    ELSE LET o == 8 * (k - 1)
         IN  x[o + 1] * 128 + x[o + 2] * 64 + x[o + 3] * 32 + x[o + 4] * 16
               + x[o + 5] * 8 + x[o + 6] * 4 + x[o + 7] * 2 + x[o + 8]

\* The number a word of whole bytes stands for, taken from its low 4 bytes: it is
\* only used where the bits above those are 0 and the number is below 2^31.
Val(x) ==
    LET n == Len(x) \div 8
    IN  ByteAt(x, n - 3) * 16777216 + ByteAt(x, n - 2) * 65536
          + ByteAt(x, n - 1) * 256 + ByteAt(x, n)

\* True when the number a word stands for is below 2^w.
Fits(x, w) == \A i \in 1..(Len(x) - w) : x[i] = 0

\* bytes.Buffer.Next(n) on the unread bytes b: the next n bytes, or all that is left.
Next_(b, n) == SubSeq(b, 1, Min(n, Len(b)))

\* What bytes.Buffer holds unread after Next(n).
Rest(b, n) == SubSeq(b, Min(n, Len(b)) + 1, Len(b))

\* binary.BigEndian.Uint16/32/64 panic (index out of range) on a shorter slice.
CanUint(b, nbytes) == Len(b) >= nbytes

BigEndianUint(b, nbytes) == BitsOf(SubSeq(b, 1, nbytes))

\* A Uint32 that takes byte 0 as the most significant.
LittleEndianUint32_big(b) == BitsOf(<<b[1], b[2], b[3], b[4]>>)

\* binary.LittleEndian.Uint32: byte 0 is the least significant.
LittleEndianUint32(b) == BitsOf(<<b[4], b[3], b[2], b[1]>>)

-----------------------------------------------------------------------------
(* Block types. In the const block of flacmeta.go FlacSignature is the     *)
(* first ConstSpec, so iota is 1 at MetadataStreaminfo.                     *)

FlacSignature == <<102, 76, 97, 67>>

MetadataStreaminfo == 1
MetadataPadding == 2
MetadataApplication == 3
MetadataSeektable == 4
MetadataVorbisComment == 5
MetadataCuesheet == 6
MetadataPicture == 7
MetadataInvalid == 127

MetadataBlockHeaderLen == 32

SeekpointBlockLen == 64 + 64 + 16

\* LookupHeaderType without its fall-through to MetadataInvalid.
LookupHeaderType_passes(i) == i + 1

LookupHeaderType(i) ==
    CASE i = 0 -> MetadataStreaminfo
      [] i = 1 -> MetadataPadding
      [] i = 2 -> MetadataApplication
      [] i = 3 -> MetadataSeektable
      [] i = 4 -> MetadataVorbisComment
      [] i = 5 -> MetadataCuesheet
      [] i = 6 -> MetadataPicture
      [] i = 127 -> MetadataInvalid
      [] OTHER -> MetadataInvalid

-----------------------------------------------------------------------------
(* MetadataBlockHeader.Parse                                                *)

lastBlock == BitsOf(<<128, 0, 0, 0>>)
blockType == BitsOf(<<127, 0, 0, 0>>)
blockLen == BitsOf(<<0, 255, 255, 255>>)

\* (lastBlock&bits)>>31 == 1
HeaderLast(bits) == Val(Shr(And(lastBlock, bits), 31)) = 1

\* bt := blockType & bits >> 24   (& and >> have equal precedence, left to right)
HeaderBt(bits) == Val(Shr(And(blockType, bits), 24))

\* mbh.Length = blockLen & bits
HeaderLength(bits) == Val(And(blockLen, bits))

\* mbh.SeekPoints = uint16(mbh.Length / (SeekpointBlockLen / 8))
HeaderSeekPoints(length) == (length \div (SeekpointBlockLen \div 8)) % Pow2(16)

NoHeader == [out |-> "none", err |-> "", Type |-> 0, Length |-> 0, Last |-> FALSE, SeekPoints |-> 0]

\* A Parse that leaves the length of a seek table to the caller.
MetadataBlockHeader_Parse_anyLength(h) ==
    LET bits == BigEndianUint(h, 4)
        type == LookupHeaderType(HeaderBt(bits))
        length == HeaderLength(bits)
    IN  IF type = MetadataInvalid
          THEN [NoHeader EXCEPT !.out = "error", !.err = "hdr_type"]
          ELSE [out |-> "ok", err |-> "", Type |-> type, Length |-> length,
                Last |-> HeaderLast(bits),
                SeekPoints |-> IF type = MetadataSeektable THEN HeaderSeekPoints(length) ELSE 0]

\* The whole of Parse on a header of at least 4 bytes: the decoded header, or the error.
MetadataBlockHeader_Parse(h) ==
    LET bits == BigEndianUint(h, 4)
        bt == HeaderBt(bits)
        type == LookupHeaderType(bt)
        length == HeaderLength(bits)
        hdr == [out |-> "ok", err |-> "", Type |-> type, Length |-> length,
                Last |-> HeaderLast(bits), SeekPoints |-> 0]
    IN  IF type = MetadataInvalid
          THEN [NoHeader EXCEPT !.out = "error", !.err = "hdr_type"]
        ELSE IF type = MetadataSeektable
          THEN IF length % (SeekpointBlockLen \div 8) # 0
                 THEN [NoHeader EXCEPT !.out = "error", !.err = "hdr_seeklen"]
                 ELSE [hdr EXCEPT !.SeekPoints = HeaderSeekPoints(length)]
        ELSE hdr

-----------------------------------------------------------------------------
(* StreaminfoBlock.Parse                                                    *)

StreaminfoMinBlockSizeLen == 16
StreaminfoMaxBlockSizeLen == 16
StreaminfoMinFrameSizeLen == 24
StreaminfoMaxFrameSizeLen == 24
StreaminfoSampleRateLen == 20
StreaminfoChannelCountLen == 3
StreaminfoBitsPerSampleLen == 6
StreaminfoTotalSamplesLen == 36
StreaminfoMD5Len == 128

minFSMask == BitsOf(<<255, 255, 255, 255, 255, 255, 255, 255>>)
maxFSMask == BitsOf(<<0, 0, 0, 0, 0, 255, 255, 255>>)
sampRateMask == BitsOf(<<255, 255, 240, 0, 0, 0, 0, 0>>)
bitsPerSampMask == BitsOf(<<0, 0, 1, 240, 0, 0, 0, 0>>)
chMask == BitsOf(<<0, 0, 14, 0, 0, 0, 0, 0>>)
totSampMask == BitsOf(<<0, 0, 0, 15, 255, 255, 255, 255>>)

\* A Go string is its bytes. The lowercase hex digit of a nibble, as its ASCII code.
HexDigit(d) == IF d < 10 THEN 48 + d ELSE 87 + d

\* fmt.Sprintf("%x", sig): two lowercase hex digits per byte.
SprintfHex(sig) ==
    [i \in 1..(2 * Len(sig)) |->
        LET b == sig[((i - 1) \div 2) + 1]
        IN  IF i % 2 = 1 THEN HexDigit(b \div 16) ELSE HexDigit(b % 16)]

\* sib.MinBlockSize > 0 && sib.MinBlockSize < 16
MinBlockSizeInvalid(v) == v > 0 /\ v < 16

\* sib.MaxBlockSize < 16
MaxBlockSizeInvalid(v) == v < 16

\* sib.SampleRate == 0 || sib.SampleRate >= 655350
\* The sample-rate test with its upper limit moved up by one.
SampleRateInvalid_above(v) == v = 0 \/ v > 655350

SampleRateInvalid(v) == v = 0 \/ v >= 655350

\* sib.MaxBlockSize = uint16((minFSMask & bits) >> 48)
SiMaxBlockSize(bits) == Val(Trunc(Shr(And(minFSMask, bits), 48), 16))

\* sib.MinFrameSize = uint32((minFSMask & bits) >> 24)
SiMinFrameSize(bits) == Trunc(Shr(And(minFSMask, bits), 24), 32)

\* sib.MaxFrameSize = uint32(maxFSMask & bits)
SiMaxFrameSize(bits) == Trunc(And(maxFSMask, bits), 32)

\* sib.SampleRate = uint32((sampRateMask & bits) >> 44)
SiSampleRate(bits) == Val(Trunc(Shr(And(sampRateMask, bits), 44), 32))

\* sib.Channels = uint8((chMask&bits)>>41) + 1
SiChannels(bits) == (Val(Trunc(Shr(And(chMask, bits), 41), 8)) + 1) % 256

\* sib.BitsPerSample = uint8((bitsPerSampMask&bits)>>36) + 1
SiBitsPerSample(bits) == (Val(Trunc(Shr(And(bitsPerSampMask, bits), 36), 8)) + 1) % 256

\* sib.TotalSamples = bits & totSampMask
SiTotalSamples(bits) == And(bits, totSampMask)

NoStreaminfo ==
    [out |-> "none", err |-> "", MinBlockSize |-> 0, MaxBlockSize |-> 0,
     MinFrameSize |-> Zeros(32), MaxFrameSize |-> Zeros(32), SampleRate |-> 0,
     Channels |-> 0, BitsPerSample |-> 0, TotalSamples |-> Zeros(64),
     MD5Signature |-> <<>>]

SiFail(out, err) == [NoStreaminfo EXCEPT !.out = out, !.err = err]

\* The whole of Parse: the decoded block, the returned error, or the run-time
\* panic of binary.BigEndian.Uint64 on a slice shorter than 8 bytes.
StreaminfoBlock_Parse(body) ==
    LET mbs == Next_(body, StreaminfoMinBlockSizeLen \div 8)
        b1 == Rest(body, StreaminfoMinBlockSizeLen \div 8)
        bfsLen == (StreaminfoMaxBlockSizeLen + StreaminfoMinFrameSizeLen
                     + StreaminfoMaxFrameSizeLen) \div 8
        g2 == Next_(b1, bfsLen)
        b2 == Rest(b1, bfsLen)
        srLen == (StreaminfoSampleRateLen + StreaminfoChannelCountLen
                    + StreaminfoBitsPerSampleLen + StreaminfoTotalSamplesLen) \div 8
        g3 == Next_(b2, srLen)
        b3 == Rest(b2, srLen)
        sig == Next_(b3, StreaminfoMD5Len \div 8)
        minbs == Val(BitsOf(mbs))
        bits2 == BigEndianUint(g2, 8)
        bits3 == BigEndianUint(g3, 8)
    IN  IF Len(mbs) # StreaminfoMinBlockSizeLen \div 8 THEN SiFail("error", "si_minbs_read")
        ELSE IF MinBlockSizeInvalid(minbs) THEN SiFail("error", "si_minbs")
        ELSE IF ~CanUint(g2, 8) THEN SiFail("panic", "")
        ELSE IF MaxBlockSizeInvalid(SiMaxBlockSize(bits2)) THEN SiFail("error", "si_maxbs")
        ELSE IF ~CanUint(g3, 8) THEN SiFail("panic", "")
        ELSE IF SampleRateInvalid(SiSampleRate(bits3)) THEN SiFail("error", "si_rate")
        ELSE [out |-> "ok", err |-> "",
              MinBlockSize |-> minbs,
              MaxBlockSize |-> SiMaxBlockSize(bits2),
              MinFrameSize |-> SiMinFrameSize(bits2),
              MaxFrameSize |-> SiMaxFrameSize(bits2),
              SampleRate |-> SiSampleRate(bits3),
              Channels |-> SiChannels(bits3),
              BitsPerSample |-> SiBitsPerSample(bits3),
              TotalSamples |-> SiTotalSamples(bits3),
              MD5Signature |-> SprintfHex(sig)]

-----------------------------------------------------------------------------
(* ApplicationBlock.Parse                                                   *)

ApplicationIdLen == 32

NoApplication == [out |-> "none", err |-> "", Id |-> Zeros(32), Data |-> <<>>]

\* ab.Id is read from buf.Next(ApplicationIdLen): the next 32 bytes, not 4, leave
\* the buffer; binary.BigEndian.Uint32 panics when fewer than 4 came back.
ApplicationBlock_Parse(body) ==
    LET idb == Next_(body, ApplicationIdLen)
        rest == Rest(body, ApplicationIdLen)
    IN  IF ~CanUint(idb, 4) THEN [NoApplication EXCEPT !.out = "panic"]
        ELSE IF Len(rest) % 8 # 0 THEN [NoApplication EXCEPT !.out = "error", !.err = "app_len"]
        ELSE [out |-> "ok", err |-> "", Id |-> BigEndianUint(idb, 4), Data |-> rest]

-----------------------------------------------------------------------------
(* VorbisCommentBlock.Parse                                                 *)

VorbisCommentVendorLen == 32
VorbisCommentUserCommentLen == 32
VorbisCommentCommentLengthLen == 32

\* int(len) of a uint32 on a 64-bit platform, capped where no block body
\* (below 2^24 bytes) can tell the difference.
IntOf(w) == IF Fits(w, 30) THEN Val(w) ELSE Pow2(30)

NoVorbisComment ==
    [out |-> "none", err |-> "", Vendor |-> <<>>, TotalComments |-> Zeros(32), Comments |-> <<>>]

\* The comment loop: tc comments still to read from buf, acc read so far. The
\* result is the comment list, or <<"panic">> when a length field is cut short.
RECURSIVE VorbisComments(_, _, _)
VorbisComments(buf, tc, acc) ==
    IF tc = 0 THEN [out |-> "ok", Comments |-> acc]
    ELSE LET lb == Next_(buf, VorbisCommentCommentLengthLen \div 8)
             b1 == Rest(buf, VorbisCommentCommentLengthLen \div 8)
         IN  IF ~CanUint(lb, 4) THEN [out |-> "panic", Comments |-> acc]
             ELSE LET n == IntOf(LittleEndianUint32(lb))
                  IN  VorbisComments(Rest(b1, n), tc - 1, Append(acc, Next_(b1, n)))

VorbisCommentBlock_Parse(body) ==
    LET lb == Next_(body, VorbisCommentVendorLen \div 8)
        b1 == Rest(body, VorbisCommentVendorLen \div 8)
    IN  IF ~CanUint(lb, 4) THEN [NoVorbisComment EXCEPT !.out = "panic"]
        ELSE
        LET n == IntOf(LittleEndianUint32(lb))
            vendor == Next_(b1, n)
            b2 == Rest(b1, n)
            cb == Next_(b2, VorbisCommentUserCommentLen \div 8)
            b3 == Rest(b2, VorbisCommentUserCommentLen \div 8)
        IN  IF ~CanUint(cb, 4) THEN [NoVorbisComment EXCEPT !.out = "panic"]
            ELSE
            LET total == LittleEndianUint32(cb)
                cs == VorbisComments(b3, IntOf(total), <<>>)
            IN  IF cs.out = "panic" THEN [NoVorbisComment EXCEPT !.out = "panic"]
                ELSE [out |-> "ok", err |-> "", Vendor |-> vendor,
                      TotalComments |-> total, Comments |-> cs.Comments]

-----------------------------------------------------------------------------
(* Seektable.Parse                                                          *)

NoSeekpoint == [SampleNumber |-> Zeros(64), Offset |-> Zeros(64), FrameSamples |-> 0]

\* binary.Read(buf, binary.BigEndian, spb): 18 bytes fill the three fields; on a
\* short read the error is dropped, the bytes are gone and spb stays zero.
ReadSeekpoint(b) ==
    IF Len(b) < SeekpointBlockLen \div 8 THEN NoSeekpoint
    ELSE [SampleNumber |-> BitsOf(SubSeq(b, 1, 8)),
          Offset |-> BitsOf(SubSeq(b, 9, 16)),
          FrameSamples |-> Val(BitsOf(SubSeq(b, 17, 18)))]

\* for i := 0; buf.Len() > 0; i++ { ...; stb.Data = append(stb.Data, spb) }
RECURSIVE Seektable_Parse(_, _)
Seektable_Parse(data, buf) ==
    IF Len(buf) = 0 THEN data
    ELSE Seektable_Parse(Append(data, ReadSeekpoint(buf)), Rest(buf, SeekpointBlockLen \div 8))

-----------------------------------------------------------------------------
(* PictureBlock.Parse                                                       *)

PictureTypeMap ==
    <<"Other", "File Icon", "Other File Icon", "Cover (front)", "Cover (back)",
      "Leaflet Page", "Media", "Lead Artist/Lead Performer/Soloist", "Artist/Performer",
      "Conductor", "Band/Orchestra", "Composer", "Lyricist/Text Writer",
      "Recording Location", "During Recording", "During Performance",
      "Movie/Video Screen Capture", "A Bright Coloured Fish", "Illustration",
      "Band/Artist Logotype", "Publisher/Studio Logotype">>

\* k is a uint32 word; the map holds the keys 0..20.
LookupPictureType(k) ==
    IF Fits(k, 8) /\ Val(k) < Len(PictureTypeMap) THEN PictureTypeMap[Val(k) + 1] ELSE "UNKNOWN"

\* The right-hand column of hex.Dump: printable ASCII as itself, else '.'.
ToChar(b) == IF b < 32 \/ b > 126 THEN 46 ELSE b

\* n as 8 lowercase hex digits (the offset that opens a line of hex.Dump).
Hex8(n) == [i \in 1..8 |-> HexDigit((n \div (16 ^ (8 - i))) % 16)]

\* One line of hex.Dump: the offset, two spaces, each byte as two hex digits and a
\* space (one more space after the 8th byte), blank columns up to 16 bytes, then
\* " |", the printable column, "|" and a newline. row holds 1..16 bytes.
HexDumpLine(off, row) ==
    LET cell(i) == IF i <= Len(row)
                     THEN <<HexDigit(row[i] \div 16), HexDigit(row[i] % 16), 32>>
                     ELSE <<32, 32, 32>>
        gap(i) == IF i = 8 THEN <<32>> ELSE IF i = 16 THEN <<32, 124>> ELSE <<>>
        RECURSIVE cells(_)
        cells(i) == IF i > 16 THEN <<>> ELSE cell(i) \o gap(i) \o cells(i + 1)
    IN  Hex8(off) \o <<32, 32>> \o cells(1) \o [i \in 1..Len(row) |-> ToChar(row[i])]
          \o <<124, 10>>

\* encoding/hex.Dump(data): the text of a hex dump of data, 16 bytes to a line.
RECURSIVE HexDumpFrom(_, _)
HexDumpFrom(off, data) ==
    IF Len(data) = 0 THEN <<>>
    ELSE HexDumpLine(off, Next_(data, 16)) \o HexDumpFrom(off + 16, Rest(data, 16))

HexDump(data) == HexDumpFrom(0, data)

NoPicture ==
    [out |-> "none", err |-> "", PictureType |-> "", MimeType |-> <<>>,
     PictureDescription |-> <<>>, Width |-> Zeros(32), Height |-> Zeros(32),
     ColorDepth |-> Zeros(32), NumColors |-> Zeros(32), Length |-> Zeros(32),
     PictureBlob |-> <<>>]

\* The five u32 fields after the description, and the picture data.
PictureTail(pt, mime, desc, buf) ==
    IF Len(buf) < 20 THEN [NoPicture EXCEPT !.out = "panic"]
    ELSE LET length == BigEndianUint(SubSeq(buf, 17, 20), 4)
         IN  [out |-> "ok", err |-> "", PictureType |-> pt, MimeType |-> mime,
              PictureDescription |-> desc,
              Width |-> BigEndianUint(SubSeq(buf, 1, 4), 4),
              Height |-> BigEndianUint(SubSeq(buf, 5, 8), 4),
              ColorDepth |-> BigEndianUint(SubSeq(buf, 9, 12), 4),
              NumColors |-> BigEndianUint(SubSeq(buf, 13, 16), 4),
              Length |-> length,
              PictureBlob |-> HexDump(Next_(Rest(buf, 20), IntOf(length)))]

\* Parse never returns an error; every u32 read panics on a body cut short.
PictureBlock_Parse(body) ==
    LET tb == Next_(body, 4)
        b1 == Rest(body, 4)
        mb == Next_(b1, 4)
        b2 == Rest(b1, 4)
    IN  IF ~CanUint(tb, 4) \/ ~CanUint(mb, 4) THEN [NoPicture EXCEPT !.out = "panic"]
        ELSE
        LET mlen == IntOf(BigEndianUint(mb, 4))
            mime == Next_(b2, mlen)
            b3 == Rest(b2, mlen)
            db == Next_(b3, 4)
            b4 == Rest(b3, 4)
        IN  IF ~CanUint(db, 4) THEN [NoPicture EXCEPT !.out = "panic"]
            ELSE
            LET dlen == IntOf(BigEndianUint(db, 4))
            IN  PictureTail(LookupPictureType(BigEndianUint(tb, 4)), mime,
                            Next_(b4, dlen), Rest(b4, dlen))

-----------------------------------------------------------------------------
(* CuesheetBlock.Parse, ParseTrack and CuesheetTrackBlock.ParseIndex        *)

CuesheetMediaCatalogNumberLen == 128 * 8
CuesheetLeadinSamplesLen == 64
CuesheetTypeLen == 1
CuesheetReservedLen == CuesheetTypeLen + 7 + 258 * 8
CuesheetTotalTracksLen == 8

CuesheetTrackTrackOffsetLen == 64
CuesheetTrackTrackNumberLen == 8
CuesheetTrackTrackISRCLen == 12 * 8
CuesheetTrackTrackTypeLen == 1
CuesheetTrackPreemphasisLen == 1
CuesheetTrackReservedLen ==
    CuesheetTrackTrackTypeLen + CuesheetTrackPreemphasisLen + 6 + 13 * 8
CuesheetTrackIndexPointsLen == 8
\* A track record of 33 bytes.
CuesheetTrackBlockLen_33 == 33 * 8

CuesheetTrackBlockLen ==
    CuesheetTrackTrackOffsetLen + CuesheetTrackTrackNumberLen + CuesheetTrackTrackISRCLen
      + CuesheetTrackTrackTypeLen + CuesheetTrackPreemphasisLen + CuesheetTrackReservedLen
      + CuesheetTrackIndexPointsLen

CuesheetTrackIndexSampleOffsetLen == 64
CuesheetTrackIndexPointLen == 8
CuesheetTrackIndexReservedLen == 3 * 8
CuesheetTrackIndexBlockLen ==
    CuesheetTrackIndexSampleOffsetLen + CuesheetTrackIndexPointLen
      + CuesheetTrackIndexReservedLen

\* The lowest bit of a byte, whatever bit is asked for.
FlagBit_low(b, n) == b % 2

\* const trackType = 0x01;  b>>n&trackType on a byte b
FlagBit(b, n) == (b \div Pow2(n)) % 2

\* One byte of the long division of a word by m.
ModStep(r, x, k, m) == (r * 256 + ByteAt(x, k)) % m

\* x % m of a 64-bit word x, byte by byte.
ModW(x, m) ==
    LET r4 == ModStep(ModStep(ModStep(ModStep(0, x, 1, m), x, 2, m), x, 3, m), x, 4, m)
    IN  ModStep(ModStep(ModStep(ModStep(r4, x, 5, m), x, 6, m), x, 7, m), x, 8, m)

\* ParseIndex on the (up to 12) bytes handed to it: "ok" with the index appended,
\* "error" (offset not divisible by 588, nothing appended) or "panic".
CuesheetTrackBlock_ParseIndex(b) ==
    LET ob == Next_(b, CuesheetTrackIndexSampleOffsetLen \div 8)
        b1 == Rest(b, CuesheetTrackIndexSampleOffsetLen \div 8)
        pb == Next_(b1, CuesheetTrackIndexPointLen \div 8)
    IN  IF ~CanUint(ob, 8) THEN [out |-> "panic"]
        ELSE IF ModW(BigEndianUint(ob, 8), 588) # 0 THEN [out |-> "error"]
        ELSE IF Len(pb) = 0 THEN [out |-> "panic"]
        ELSE [out |-> "ok", SampleOffset |-> BigEndianUint(ob, 8), IndexPoint |-> pb[1]]

\* ParseTrack on the (up to 36) bytes handed to it: "ok" with the track appended,
\* "error" (track number 0, nothing appended) or "panic".
CuesheetBlock_ParseTrack(b) ==
    LET ob == Next_(b, CuesheetTrackTrackOffsetLen \div 8)
        b1 == Rest(b, CuesheetTrackTrackOffsetLen \div 8)
        nb == Next_(b1, CuesheetTrackTrackNumberLen \div 8)
        b2 == Rest(b1, CuesheetTrackTrackNumberLen \div 8)
        isrc == Next_(b2, CuesheetTrackTrackISRCLen \div 8)
        b3 == Rest(b2, CuesheetTrackTrackISRCLen \div 8)
        rb == Next_(b3, CuesheetTrackReservedLen \div 8)
        b4 == Rest(b3, CuesheetTrackReservedLen \div 8)
        ib == Next_(b4, CuesheetTrackIndexPointsLen \div 8)
    IN  IF ~CanUint(ob, 8) \/ Len(nb) = 0 THEN [out |-> "panic"]
        ELSE IF nb[1] = 0 THEN [out |-> "error"]
        ELSE IF Len(rb) = 0 \/ Len(ib) = 0 THEN [out |-> "panic"]
        ELSE [out |-> "ok",
              TrackOffset |-> BigEndianUint(ob, 8),
              TrackNumber |-> nb[1],
              TrackISRC |-> isrc,
              TrackType |-> FlagBit(rb[1], 7),
              PreEmphasis |-> FlagBit(rb[1], 6) = 1,
              IndexPoints |-> ib[1],
              CuesheetTrackIndexes |-> <<>>]

\* The inner loop of Parse: j index records still to read for the track; the
\* error ParseIndex returns is dropped, so a rejected record is skipped.
RECURSIVE CuesheetIndexes(_, _, _)
CuesheetIndexes(buf, j, acc) ==
    IF j = 0 THEN [out |-> "ok", idx |-> acc, buf |-> buf]
    ELSE LET r == CuesheetTrackBlock_ParseIndex(Next_(buf, CuesheetTrackIndexBlockLen \div 8))
             rest == Rest(buf, CuesheetTrackIndexBlockLen \div 8)
         IN  IF r.out = "panic" THEN [out |-> "panic", idx |-> acc, buf |-> rest]
             ELSE IF r.out = "error" THEN CuesheetIndexes(rest, j - 1, acc)
             ELSE CuesheetIndexes(rest, j - 1,
                    Append(acc, [SampleOffset |-> r.SampleOffset, IndexPoint |-> r.IndexPoint]))

\* The outer loop of Parse: n tracks still to read. The error ParseTrack returns
\* is dropped too, and then cb.CuesheetTracks[i] indexes past the end: a panic.
RECURSIVE CuesheetTracks(_, _, _)
CuesheetTracks(buf, n, tracks) ==
    IF n = 0 THEN [out |-> "ok", tracks |-> tracks]
    ELSE LET r == CuesheetBlock_ParseTrack(Next_(buf, CuesheetTrackBlockLen \div 8))
             rest == Rest(buf, CuesheetTrackBlockLen \div 8)
         IN  IF r.out # "ok" THEN [out |-> "panic", tracks |-> tracks]
             ELSE LET ix == CuesheetIndexes(rest, r.IndexPoints, <<>>)
                  IN  IF ix.out = "panic" THEN [out |-> "panic", tracks |-> tracks]
                      ELSE CuesheetTracks(ix.buf, n - 1,
                             Append(tracks, [r EXCEPT !.CuesheetTrackIndexes = ix.idx]))

NoCuesheet ==
    [out |-> "none", err |-> "", MediaCatalogNumber |-> <<>>, LeadinSamples |-> Zeros(64),
     IsCompactDisc |-> FALSE, TotalTracks |-> 0, CuesheetTracks |-> <<>>]

CuesheetBlock_Parse(body) ==
    LET mcn == Next_(body, CuesheetMediaCatalogNumberLen \div 8)
        b1 == Rest(body, CuesheetMediaCatalogNumberLen \div 8)
        lb == Next_(b1, CuesheetLeadinSamplesLen \div 8)
        b2 == Rest(b1, CuesheetLeadinSamplesLen \div 8)
        rb == Next_(b2, CuesheetReservedLen \div 8)
        b3 == Rest(b2, CuesheetReservedLen \div 8)
        tb == Next_(b3, CuesheetTotalTracksLen \div 8)
        b4 == Rest(b3, CuesheetTotalTracksLen \div 8)
    IN  IF ~CanUint(lb, 8) \/ Len(rb) = 0 \/ Len(tb) = 0 THEN [NoCuesheet EXCEPT !.out = "panic"]
        ELSE IF tb[1] < 1 THEN [NoCuesheet EXCEPT !.out = "error", !.err = "cue_tracks"]
        ELSE LET ts == CuesheetTracks(b4, tb[1], <<>>)
             IN  IF ts.out = "panic" THEN [NoCuesheet EXCEPT !.out = "panic"]
                 ELSE [out |-> "ok", err |-> "",
                       MediaCatalogNumber |-> mcn,
                       LeadinSamples |-> BigEndianUint(lb, 8),
                       IsCompactDisc |-> FlagBit(rb[1], 7) = 1,
                       TotalTracks |-> tb[1],
                       CuesheetTracks |-> ts.tracks]

-----------------------------------------------------------------------------
(* Metadata and the switch of Metadata.Read                                 *)

\* A decoder's result without the outcome fields: the block struct itself.
Strip(r) == [k \in (DOMAIN r) \ {"out", "err"} |-> r[k]]

\* A slot as new(Metadata) leaves it: nil header, nil data, IsPopulated false.
EmptySlot(nodata) == [Header |-> NoHeader, Data |-> nodata, IsPopulated |-> FALSE]

EmptyMetadata ==
    [Streaminfo |-> EmptySlot(Strip(NoStreaminfo)),
     Application |-> EmptySlot(Strip(NoApplication)),
     VorbisComment |-> EmptySlot(Strip(NoVorbisComment)),
     Pictures |-> <<>>,
     Padding |-> EmptySlot(<<>>),
     Seektable |-> EmptySlot(<<>>),
     Cuesheet |-> EmptySlot(Strip(NoCuesheet)),
     TotalBlocks |-> 0]

Stored(m) == [meta |-> m, out |-> "stored", err |-> ""]
Failed(m, out, err) == [meta |-> m, out |-> out, err |-> err]

\* A singleton case without its IsPopulated test.
SingletonCase_unguarded(m, slot, h, r) ==
    IF r.out # "ok" THEN Failed(m, r.out, r.err)
    ELSE Stored([m EXCEPT ![slot] = [Header |-> h, Data |-> Strip(r), IsPopulated |-> TRUE]])

\* A case that puts the header into the slot before it looks at the decoder's result.
SingletonCase_headerFirst(m, slot, h, r) ==
    IF m[slot].IsPopulated THEN Failed(m, "error", "dup")
    ELSE IF r.out # "ok" THEN Failed([m EXCEPT ![slot].Header = h], r.out, r.err)
    ELSE Stored([m EXCEPT ![slot] = [Header |-> h, Data |-> Strip(r), IsPopulated |-> TRUE]])

\* A case that decodes into a fresh block and stores {mbh, block, true} in slot.
SingletonCase(m, slot, h, r) ==
    IF m[slot].IsPopulated THEN Failed(m, "error", "dup")
    ELSE IF r.out # "ok" THEN Failed(m, r.out, r.err)
    ELSE Stored([m EXCEPT ![slot] = [Header |-> h, Data |-> Strip(r), IsPopulated |-> TRUE]])

\* The picture case putting the new picture in front of the list.
PictureCase_prepends(m, h, r) ==
    IF r.out # "ok" THEN Failed(m, r.out, r.err)
    ELSE Stored([m EXCEPT !.Pictures =
                   <<[Header |-> h, Data |-> Strip(r), IsPopulated |-> TRUE]>> \o @])

\* The picture case keeping the newest picture only.
PictureCase_replaces(m, h, r) ==
    IF r.out # "ok" THEN Failed(m, r.out, r.err)
    ELSE Stored([m EXCEPT !.Pictures = <<[Header |-> h, Data |-> Strip(r), IsPopulated |-> TRUE]>>])

\* case MetadataPicture: no IsPopulated test, the picture is appended.
PictureCase(m, h, r) ==
    IF r.out # "ok" THEN Failed(m, r.out, r.err)
    ELSE Stored([m EXCEPT !.Pictures =
                   Append(@, [Header |-> h, Data |-> Strip(r), IsPopulated |-> TRUE])])

\* A Padding case that keeps the (zero) bytes of the body as Data.
PaddingCase_keepsBody(m, h) ==
    IF m.Padding.IsPopulated THEN Failed(m, "error", "dup")
    ELSE Stored([m EXCEPT !.Padding = [Header |-> h, Data |-> Zeros(h.Length), IsPopulated |-> TRUE]])

\* case MetadataPadding: the body is dropped, Data is nil.
PaddingCase(m, h) ==
    IF m.Padding.IsPopulated THEN Failed(m, "error", "dup")
    ELSE Stored([m EXCEPT !.Padding = [Header |-> h, Data |-> <<>>, IsPopulated |-> TRUE]])

\* A SeekTable case without its IsPopulated test: Parse appends to the stored points.
SeektableCase_unguarded(m, h, b) ==
    IF Len(b) % (SeekpointBlockLen \div 8) # 0 THEN Failed(m, "error", "seek_len")
    ELSE Stored([m EXCEPT !.Seektable =
                   [Header |-> h, Data |-> Seektable_Parse(@.Data, b), IsPopulated |-> TRUE]])

\* case MetadataSeektable: Parse appends to meta.Seektable.Data in place.
SeektableCase(m, h, b) ==
    IF m.Seektable.IsPopulated THEN Failed(m, "error", "dup")
    ELSE IF Len(b) % (SeekpointBlockLen \div 8) # 0 THEN Failed(m, "error", "seek_len")
    ELSE Stored([m EXCEPT !.Seektable =
                   [Header |-> h, Data |-> Seektable_Parse(@.Data, b), IsPopulated |-> TRUE]])

\* switch mbh.Type { ... default: continue }
Switch(m, h, b) ==
    CASE h.Type = MetadataStreaminfo ->
           SingletonCase(m, "Streaminfo", h, StreaminfoBlock_Parse(b))
      [] h.Type = MetadataVorbisComment ->
           SingletonCase(m, "VorbisComment", h, VorbisCommentBlock_Parse(b))
      [] h.Type = MetadataPicture -> PictureCase(m, h, PictureBlock_Parse(b))
      [] h.Type = MetadataPadding -> PaddingCase(m, h)
      [] h.Type = MetadataApplication ->
           SingletonCase(m, "Application", h, ApplicationBlock_Parse(b))
      [] h.Type = MetadataSeektable -> SeektableCase(m, h, b)
      [] h.Type = MetadataCuesheet ->
           SingletonCase(m, "Cuesheet", h, CuesheetBlock_Parse(b))
      [] OTHER -> [meta |-> m, out |-> "continue", err |-> ""]

-----------------------------------------------------------------------------
(* The input streams: a signature, then up to MaxBlocks blocks               *)

MaxBlocks == 3

\* The STREAMINFO bodies of the two test files (44100-16-mono, silence-44-s).
Fixture44k16Mono ==
    <<16, 0, 16, 0, 0, 0, 11, 0, 0, 14, 10, 196, 64, 240, 0, 15, 122, 28,
      229, 204, 201, 103, 206, 214, 193, 17, 83, 14, 92, 121, 227, 60, 150, 158>>

Fixture44k16Stereo ==
    <<18, 0, 18, 0, 0, 2, 121, 0, 5, 43, 10, 196, 66, 240, 0, 2, 122, 192,
      98, 145, 219, 216, 220, 183, 220, 72, 1, 50, 228, 196, 186, 21, 74, 23>>

\* A block as written to the file: wire type code, body bytes, the length its
\* header declares, and how many of the 4 header bytes made it into the file.
Blk(code, body) == [code |-> code, body |-> body, declared |-> Len(body), hdr |-> 4]

CuesheetBody ==
    [i \in 1..128 |-> IF i <= 13 THEN 48 + (i % 10) ELSE 0]     \* media catalog number
      \o <<0, 0, 0, 0, 0, 1, 88, 136>>                          \* lead-in samples
      \o <<128>> \o Zeros(258)                                  \* compact-disc flag, reserved
      \o <<2>>                                                  \* two tracks
      \o Zeros(8) \o <<1>> \o Zeros(12) \o <<192>> \o Zeros(13) \o <<1>>
      \o <<0, 0, 0, 0, 0, 0, 2, 76>> \o <<1>> \o Zeros(3)       \* index at sample 588
      \o <<0, 0, 0, 0, 0, 1, 88, 136>> \o <<170>> \o Zeros(12) \o Zeros(14) \o <<0>>

Picture1Body ==
    <<0, 0, 0, 3>> \o <<0, 0, 0, 1, 105>> \o <<0, 0, 0, 0>>
      \o <<0, 0, 0, 1>> \o <<0, 0, 0, 2>> \o <<0, 0, 0, 24>> \o <<0, 0, 0, 0>>
      \o <<0, 0, 0, 2, 255, 216>>

Picture2Body ==
    <<0, 0, 0, 4>> \o <<0, 0, 0, 1, 112>> \o <<0, 0, 0, 1, 100>>
      \o <<0, 0, 0, 3>> \o <<0, 0, 0, 4>> \o <<0, 0, 0, 8>> \o <<0, 0, 0, 2>>
      \o <<0, 0, 0, 3, 137, 80, 78>>

VorbisBody == <<2, 0, 0, 0, 97, 98>> \o <<1, 0, 0, 0>> \o <<3, 0, 0, 0, 65, 61, 98>>

Fixtures ==
    [SI       |-> Blk(0, Fixture44k16Mono),
     PAD      |-> Blk(1, Zeros(3)),
     APP      |-> Blk(2, <<65, 66, 67, 68, 1, 2, 3, 4, 5, 6, 7, 8>>),
     SEEK     |-> Blk(3, Zeros(8) \o Zeros(8) \o <<16, 0>>),
     VC       |-> Blk(4, VorbisBody),
     CUE      |-> Blk(5, CuesheetBody),
     PIC1     |-> Blk(6, Picture1Body),
     PIC2     |-> Blk(6, Picture2Body),
     T7       |-> Blk(7, <<0>>),
     \* malformed bodies, bad headers, truncations
     SIBAD    |-> Blk(0, <<0, 1>> \o SubSeq(Fixture44k16Mono, 3, 34)),
     SISHORT  |-> Blk(0, SubSeq(Fixture44k16Mono, 1, 5)),
     SIONE    |-> Blk(0, <<16>>),
     SITAIL   |-> Blk(0, SubSeq(Fixture44k16Mono, 1, 20)),
     APPSHORT |-> Blk(2, <<65, 66>>),
     APPODD   |-> Blk(2, [i \in 1..39 |-> i]),
     SEEKBAD  |-> Blk(3, Zeros(17)),
     SEEKLONG |-> Blk(3, Zeros(19)),
     VCSHORT  |-> Blk(4, SubSeq(VorbisBody, 1, 12)),
     CUESHORT |-> Blk(5, SubSeq(CuesheetBody, 1, 130)),
     T127     |-> Blk(127, <<>>),
     CUTBODY  |-> [Blk(0, SubSeq(Fixture44k16Mono, 1, 10)) EXCEPT !.declared = 34],
     CUTHDR   |-> [Blk(1, <<>>) EXCEPT !.hdr = 2]]

\* Blocks that may stand anywhere in a stream.
Anywhere == {"SI", "PAD", "APP", "SEEK", "VC", "CUE", "PIC1", "PIC2", "T7"}

\* The malformed blocks: each is written as the final block of a stream only.
FinalOnly == {"SIBAD", "SISHORT", "SIONE", "SITAIL", "APPSHORT", "APPODD", "SEEKBAD",
              "SEEKLONG", "VCSHORT", "CUESHORT", "T127", "CUTBODY", "CUTHDR"}

\* The 4 header bytes: last flag and type code, then the 24-bit length.
HeaderBytes(code, last, len) ==
    <<(IF last THEN 128 ELSE 0) + code, (len \div 65536) % 256, (len \div 256) % 256, len % 256>>

BlockBytes(id, last) ==
    LET f == Fixtures[id]
    IN  SubSeq(HeaderBytes(f.code, last, f.declared), 1, f.hdr) \o f.body

RECURSIVE Concat(_)
Concat(ss) == IF Len(ss) = 0 THEN <<>> ELSE Head(ss) \o Concat(Tail(ss))

\* lastAt is the position of the block that carries the last-block flag (0: none).
StreamOf(sig, ids, lastAt) ==
    sig \o Concat([i \in 1..Len(ids) |-> BlockBytes(ids[i], i = lastAt)])

\* "fLaC", and three that are not it: "fLac", "FLAC" and the 3 bytes "fLa".
Signatures == {FlacSignature, <<102, 76, 97, 99>>, <<70, 76, 65, 67>>, <<102, 76, 97>>}

RECURSIVE SeqsUpTo(_, _)
SeqsUpTo(S, n) ==
    IF n = 0 THEN {<<>>}
    ELSE LET shorter == SeqsUpTo(S, n - 1)
         IN  shorter \cup {Append(q, x) : q \in {t \in shorter : Len(t) = n - 1}, x \in S}

Layouts ==
    LET prefixes == SeqsUpTo(Anywhere, MaxBlocks - 1)
    IN  {<<>>} \cup {Append(q, x) : q \in prefixes, x \in Anywhere \cup FinalOnly}

-----------------------------------------------------------------------------
(* Decoder harness: one decoder applied to one input drawn from a bounded   *)
(* set of byte strings.                                                     *)

NoRes == [out |-> "none"]

\* Block header words: every type code class, both values of the last flag,
\* lengths around the seek point size and at both ends of the 24-bit range.
HdrB0 == {0, 1, 2, 3, 4, 5, 6, 7, 8, 64, 126, 127,
          128, 129, 130, 131, 132, 133, 134, 135, 192, 254, 255}
HdrB1 == {0, 1, 128, 255}
HdrB2 == {0, 1, 255}
HdrB3 == {0, 1, 17, 18, 34, 36, 54, 255}
HdrInputs == {<<b0, b1, b2, b3>> : b0 \in HdrB0, b1 \in HdrB1, b2 \in HdrB2, b3 \in HdrB3}

\* STREAMINFO bodies, field by field as bytes on the wire.
SiMinBS == {<<0, 0>>, <<0, 1>>, <<0, 15>>, <<0, 16>>, <<16, 0>>, <<18, 0>>, <<255, 255>>}
SiMaxBS == {<<0, 0>>, <<0, 15>>, <<0, 16>>, <<4, 128>>, <<16, 0>>, <<18, 0>>, <<255, 255>>}
SiMinFS == {<<0, 0, 0>>, <<0, 0, 11>>, <<0, 2, 121>>, <<255, 255, 255>>}
SiMaxFS == {<<0, 0, 0>>, <<0, 0, 14>>, <<0, 5, 43>>, <<255, 255, 255>>}
SiRate == {<<10, 196, 64, 240>>, <<10, 196, 66, 240>>, <<0, 0, 0, 0>>, <<0, 0, 31, 240>>,
           <<159, 255, 80, 0>>, <<159, 255, 111, 255>>, <<255, 255, 255, 255>>}
SiTotal == {<<0, 15, 122, 28>>, <<0, 2, 122, 192>>, <<255, 255, 255, 255>>}
SiMD5 == {<<229, 204, 201, 103, 206, 214, 193, 17, 83, 14, 92, 121, 227, 60, 150, 158>>,
          <<98, 145, 219, 216, 220, 183, 220, 72, 1, 50, 228, 196, 186, 21, 74, 23>>}
SiBodies == {a \o b \o c \o d \o e \o f \o g :
               a \in SiMinBS, b \in SiMaxBS, c \in SiMinFS, d \in SiMaxFS,
               e \in SiRate, f \in SiTotal, g \in SiMD5}

\* The reader at rest, for the decoder harness.
InitRead ==
    /\ stream = <<>>
    /\ layout = [sig |-> <<>>, ids |-> <<>>, lastAt |-> 0]
    /\ pos = 0
    /\ pc = "idle"
    /\ meta = EmptyMetadata
    /\ mbh = NoHeader
    /\ block = <<>>
    /\ outcome = "none"
    /\ errsite = ""
    /\ nhdr = 0

InitHdr == InitRead /\ fn = "none" /\ res = NoRes /\ arg \in HdrInputs

ApplyHeaderParse ==
    /\ fn = "none"
    /\ fn' = "hdr"
    /\ res' = MetadataBlockHeader_Parse(arg)
    /\ UNCHANGED <<arg, readVars>>

NextHdr == ApplyHeaderParse

SpecHdr == InitHdr /\ [][NextHdr]_vars

InitSI == InitRead /\ fn = "none" /\ res = NoRes /\ arg \in SiBodies

ApplyStreaminfoParse ==
    /\ fn = "none"
    /\ fn' = "si"
    /\ res' = StreaminfoBlock_Parse(arg)
    /\ UNCHANGED <<arg, readVars>>

NextSI == ApplyStreaminfoParse

SpecSI == InitSI /\ [][NextSI]_vars

-----------------------------------------------------------------------------
(* Claims about the decoders as functions of their input bytes. The wire    *)
(* fields are computed here from the bytes by division and remainder,       *)
(* independently of the masks and shifts of the decoders.                   *)

HdrParsed == fn = "hdr" /\ res.out = "ok"

WireLast(h) == h[1] >= 128
WireType(h) == h[1] % 128
WireLength(h) == h[2] * 65536 + h[3] * 256 + h[4]

\* C8: for every 4-byte header MetadataBlockHeader.Parse accepts, Last is bit 31,
\* Type is the 7-bit value of bits 30..24 and Length is the 24-bit value of bits 23..0.
C8_HeaderFieldsAreWireFields ==
    HdrParsed =>
        /\ res.Last = WireLast(arg)
        /\ res.Type = WireType(arg)
        /\ res.Length = WireLength(arg)
        /\ res.Length >= 0 /\ res.Length < Pow2(24)

SiParsed == fn = "si" /\ res.out = "ok" /\ Len(arg) = 34

WireMinBlockSize(b) == b[1] * 256 + b[2]
WireMaxBlockSize(b) == b[3] * 256 + b[4]
WireMinFrameSize(b) == b[5] * 65536 + b[6] * 256 + b[7]
WireMaxFrameSize(b) == b[8] * 65536 + b[9] * 256 + b[10]
WireSampleRate(b) == b[11] * 4096 + b[12] * 16 + (b[13] \div 16)
WireChannels(b) == ((b[13] \div 2) % 8) + 1
WireBitsPerSample(b) == (b[13] % 2) * 16 + (b[14] \div 16) + 1
\* The 36-bit total sample count as a 64-bit word: 24 zero bits, then the low
\* nibble of byte 13 (as a byte) and bytes 14..17.
WireTotalSamples(b) == Zeros(24) \o BitsOf(<<b[14] % 16, b[15], b[16], b[17], b[18]>>)

\* The value of a character '0'..'9', 'a'..'f' given by its ASCII code, else -1.
HexValue(c) == IF c \in 48..57 THEN c - 48 ELSE IF c \in 97..102 THEN c - 87 ELSE -1

IsHexOf(str, bytes) ==
    /\ Len(str) = 2 * Len(bytes)
    /\ \A i \in 1..Len(str) : HexValue(str[i]) >= 0
    /\ \A i \in 1..Len(bytes) : HexValue(str[2 * i - 1]) * 16 + HexValue(str[2 * i]) = bytes[i]

SiValues(r) ==
    <<r.MinBlockSize, r.MaxBlockSize, Val(r.MinFrameSize), Val(r.MaxFrameSize),
      r.SampleRate, r.Channels, r.BitsPerSample, Val(r.TotalSamples)>>

\* C9: for every valid 34-byte body StreaminfoBlock.Parse yields each field as the
\* bits of the wire layout say, and the MD5 as 32 lowercase hex characters; the two
\* test fixtures decode to the values of the tests.
C9_StreaminfoFieldsAreWireFields ==
    SiParsed =>
        /\ res.MinBlockSize = WireMinBlockSize(arg)
        /\ res.MaxBlockSize = WireMaxBlockSize(arg)
        /\ res.MinFrameSize = Zeros(8) \o BitsOf(SubSeq(arg, 5, 7))
        /\ res.MaxFrameSize = Zeros(8) \o BitsOf(SubSeq(arg, 8, 10))
        /\ res.SampleRate = WireSampleRate(arg)
        /\ res.Channels = WireChannels(arg)
        /\ res.BitsPerSample = WireBitsPerSample(arg)
        /\ res.TotalSamples = WireTotalSamples(arg)
        /\ IsHexOf(res.MD5Signature, SubSeq(arg, 19, 34))
        /\ arg = Fixture44k16Mono =>
             SiValues(res) = <<4096, 4096, 11, 14, 44100, 1, 16, 1014300>>
        /\ arg = Fixture44k16Stereo =>
             SiValues(res) = <<4608, 4608, 633, 1323, 44100, 2, 16, 162496>>

WireInvalid(b) ==
    \/ WireMinBlockSize(b) \in 1..15
    \/ WireMaxBlockSize(b) < 16
    \/ WireSampleRate(b) = 0
    \/ WireSampleRate(b) >= 655350

\* C10: on a 34-byte body StreaminfoBlock.Parse returns an error exactly when the
\* min-block-size is in 1..15, the max-block-size is below 16, or the sample rate is
\* 0 or at least 655350; otherwise it succeeds, whatever the channel and
\* bits-per-sample fields are.
C10_StreaminfoErrorIffOutOfRange ==
    (fn = "si" /\ Len(arg) = 34) =>
        /\ res.out \in {"ok", "error"}
        /\ res.out = "error" <=> WireInvalid(arg)

\* A body with min-block-size 0 and a valid max-block-size rejected for its sample
\* rate alone, with all channel and bits-per-sample bits set.
C10_Witness ==
    /\ fn = "si" /\ Len(arg) = 34
    /\ WireMinBlockSize(arg) = 0
    /\ WireMaxBlockSize(arg) >= 16
    /\ WireSampleRate(arg) >= 655350
    /\ WireChannels(arg) = 8 /\ WireBitsPerSample(arg) = 32
    /\ res.out = "error"

-----------------------------------------------------------------------------
(* Metadata.Read as a state machine over one input stream                   *)

\* Every stream of a signature and a layout of blocks, one of which (or none)
\* carries the last-block flag; a wrong signature comes with the shorter layouts.
Init ==
    /\ \E sig \in Signatures, ids \in Layouts :
         \E lastAt \in 0..Len(ids) :
            /\ sig # FlacSignature => Len(ids) < MaxBlocks
            /\ layout = [sig |-> sig, ids |-> ids, lastAt |-> lastAt]
            /\ stream = StreamOf(sig, ids, lastAt)
    /\ pos = 0
    /\ pc = "sig"
    /\ meta = EmptyMetadata
    /\ mbh = NoHeader
    /\ block = <<>>
    /\ outcome = "none"
    /\ errsite = ""
    /\ nhdr = 0
    /\ fn = "none" /\ arg = <<>> /\ res = NoRes

\* A signature test that looks at the first three bytes only.
SignatureOk_prefix(h) == SubSeq(h, 1, 3) = SubSeq(FlacSignature, 1, 3)

\* A loop that breaks after every stored block.
IsLast_always(h) == TRUE

\* string(h) != FlacSignature
SignatureOk(h) == h = FlacSignature

\* if mbh.Last { break }
IsLast(h) == h.Last

\* A read that delivers zero bytes in place of the bytes the input lacks.
ReadFull_padded(n) ==
    SubSeq(stream, pos + 1, Min(pos + n, Len(stream))) \o Zeros(n - Min(n, Len(stream) - pos))

\* io.ReadFull(f, buf) with len(buf) = n: the bytes it delivers.
ReadFull(n) == SubSeq(stream, pos + 1, Min(pos + n, Len(stream)))

\* A return that goes back to the head of the block loop.
Return_loops(out, err) ==
    /\ pc' = "hdr"
    /\ outcome' = out
    /\ errsite' = err

Return(out, err) ==
    /\ pc' = "done"
    /\ outcome' = out
    /\ errsite' = err

\* Lines 789-798: the signature.
ReadSignature ==
    /\ pc = "sig"
    /\ LET h == ReadFull(MetadataBlockHeaderLen \div 8)
       IN  /\ pos' = pos + Len(h)
           /\ IF Len(h) # MetadataBlockHeaderLen \div 8 THEN Return("error", "sig_read")
              ELSE IF ~SignatureOk(h) THEN Return("error", "sig")
              ELSE pc' = "hdr" /\ UNCHANGED <<outcome, errsite>>
    /\ UNCHANGED <<stream, layout, meta, mbh, block, nhdr, fnVars>>

\* Lines 802-811: read and decode one block header.
ReadHeader ==
    /\ pc = "hdr"
    /\ LET h == ReadFull(MetadataBlockHeaderLen \div 8)
       IN  /\ pos' = pos + Len(h)
           /\ IF Len(h) # MetadataBlockHeaderLen \div 8
                THEN Return("error", "hdr_read") /\ UNCHANGED <<mbh, nhdr>>
              ELSE LET r == MetadataBlockHeader_Parse(h)
                   IN  IF r.out = "error"
                         THEN Return("error", r.err) /\ UNCHANGED <<mbh, nhdr>>
                         ELSE /\ mbh' = r
                              /\ nhdr' = nhdr + 1
                              /\ pc' = "body"
                              /\ UNCHANGED <<outcome, errsite>>
    /\ UNCHANGED <<stream, layout, meta, block, fnVars>>

\* Lines 813-817: read the mbh.Length bytes of the body.
ReadBody ==
    /\ pc = "body"
    /\ LET b == ReadFull(mbh.Length)
       IN  /\ pos' = pos + Len(b)
           /\ IF Len(b) # mbh.Length
                THEN Return("error", "body_read") /\ UNCHANGED block
                ELSE block' = b /\ pc' = "dispatch" /\ UNCHANGED <<outcome, errsite>>
    /\ UNCHANGED <<stream, layout, meta, mbh, nhdr, fnVars>>

\* Lines 819-907: the switch, then the test of mbh.Last. The default case
\* continues the loop without that test.
Dispatch ==
    /\ pc = "dispatch"
    /\ LET r == Switch(meta, mbh, block)
       IN  /\ meta' = r.meta
           /\ IF r.out \in {"error", "panic"} THEN Return(r.out, r.err)
              ELSE IF r.out = "continue" THEN pc' = "hdr" /\ UNCHANGED <<outcome, errsite>>
              ELSE IF IsLast(mbh) THEN Return("nil", "")
              ELSE pc' = "hdr" /\ UNCHANGED <<outcome, errsite>>
    /\ UNCHANGED <<stream, layout, pos, mbh, block, nhdr, fnVars>>

Next ==
    \/ ReadSignature
    \/ ReadHeader
    \/ ReadBody
    \/ Dispatch

Spec == Init /\ [][Next]_vars

-----------------------------------------------------------------------------
(* Claims about Metadata.Read. What the input holds is computed here from    *)
(* the bytes of the stream and from its layout, not from the decoders.       *)

\* The input does not begin with the four bytes 'f' 'L' 'a' 'C'.
BadSignature == Len(stream) < 4 \/ SubSeq(stream, 1, 4) # <<102, 76, 97, 67>>

\* C1: whenever the first 4 bytes of the input are not "fLaC", or fewer than 4
\* bytes are there, Read returns an error at the signature: no block header has
\* been read and no slot or picture list of the Metadata has been changed.
C1_BadSignatureFailsBeforeAnyBlock ==
    (pc # "sig" /\ BadSignature) =>
        /\ pc = "done" /\ outcome = "error"
        /\ errsite \in {"sig", "sig_read"}
        /\ nhdr = 0 /\ mbh = NoHeader
        /\ pos = Min(4, Len(stream))
        /\ meta = EmptyMetadata

\* A 4-byte signature that is not "fLaC" rejected with blocks behind it.
C1_Witness ==
    /\ outcome = "error" /\ errsite = "sig"
    /\ Len(stream) > 4 /\ Len(layout.ids) > 0

\* The slot of each singleton type, by the type code on the wire (0..5).
SingletonSlots ==
    <<"Streaminfo", "Padding", "Application", "Seektable", "VorbisComment", "Cuesheet">>

\* The slot of the block whose header Read holds in mbh.
SlotOfType(t) ==
    CASE t = MetadataStreaminfo -> "Streaminfo"
      [] t = MetadataPadding -> "Padding"
      [] t = MetadataApplication -> "Application"
      [] t = MetadataSeektable -> "Seektable"
      [] t = MetadataVorbisComment -> "VorbisComment"
      [] t = MetadataCuesheet -> "Cuesheet"
      [] OTHER -> "none"

HeaderAhead == pc = "hdr" /\ pos + 4 <= Len(stream)
AheadCode == stream[pos + 1] % 128
AheadLength == stream[pos + 2] * 65536 + stream[pos + 3] * 256 + stream[pos + 4]

\* Read is at a block of a singleton type whose slot is populated: its header is
\* next in the input, or Read holds its header and is reading or dispatching it.
SecondOccurrence ==
    \/ /\ HeaderAhead
       /\ AheadCode \in 0..5
       /\ meta[SingletonSlots[AheadCode + 1]].IsPopulated
    \/ /\ pc \in {"body", "dispatch"}
       /\ SlotOfType(mbh.Type) # "none"
       /\ meta[SlotOfType(mbh.Type)].IsPopulated

\* A populated singleton slot keeps its header and data.
NeverOverwritten ==
    \A i \in 1..Len(SingletonSlots) :
        meta[SingletonSlots[i]].IsPopulated => meta'[SingletonSlots[i]] = meta[SingletonSlots[i]]

\* C2 as stated: at a block of a singleton type whose slot is populated, Read
\* returns the duplicate-block error at that block, whatever follows, without
\* decoding or storing it; the first stored block is never overwritten.
C2_SecondOccurrenceIsDuplicateError ==
    [][/\ NeverOverwritten
       /\ SecondOccurrence =>
            /\ meta' = meta
            /\ pc' \in {"body", "dispatch", "done"}
            /\ pc = "dispatch" => pc' = "done"
            /\ pc' = "done" => outcome' = "error" /\ errsite' = "dup"]_vars

\* C2: at a block of a singleton type whose slot is populated Read fails at that
\* block, whatever follows, without decoding or storing it, and the first stored
\* block is never overwritten. The error is the duplicate-block error, but for two
\* failures that come before the dispatch: a SeekTable header whose length is not
\* a multiple of 18 fails at header decode, and a body cut short by the end of
\* the input fails at the read of the body.
C2_SecondOccurrenceFails ==
    [][/\ NeverOverwritten
       /\ SecondOccurrence =>
            /\ meta' = meta
            /\ pc' \in {"body", "dispatch", "done"}
            /\ pc = "dispatch" => pc' = "done" /\ errsite' = "dup"
            /\ pc' = "done" =>
                 /\ outcome' = "error"
                 /\ \/ errsite' = "dup"
                    \/ /\ errsite' = "hdr_seeklen"
                       /\ pc = "hdr" /\ AheadCode = 3 /\ AheadLength % 18 # 0
                    \/ /\ errsite' = "body_read"
                       /\ pc = "body" /\ pos + mbh.Length > Len(stream)]_vars

\* A duplicate-block error at a second Cuesheet or StreamInfo with blocks behind it.
C2_Witness ==
    /\ outcome = "error" /\ errsite = "dup"
    /\ mbh.Type \in {MetadataCuesheet, MetadataStreaminfo}
    /\ nhdr < Len(layout.ids)
    /\ pos < Len(stream)

\* The positions, in stream order, of the Picture blocks (wire type code 6) up to
\* and including the block that carries the last-block flag.
PictureIdx ==
    SelectSeq([i \in 1..layout.lastAt |-> i], LAMBDA i : Fixtures[layout.ids[i]].code = 6)

\* C3: after a successful Read of a stream with k Picture blocks among other
\* blocks, Metadata.Pictures has exactly k entries in the order of the stream; a
\* repeated Picture block never draws the duplicate-block error.
C3_PicturesAccumulateInOrder ==
    /\ outcome = "nil" =>
         /\ Len(meta.Pictures) = Len(PictureIdx)
         /\ \A j \in 1..Len(PictureIdx) :
              LET body == Fixtures[layout.ids[PictureIdx[j]]].body
              IN  /\ meta.Pictures[j].IsPopulated
                  /\ meta.Pictures[j].Header.Length = Len(body)
                  /\ meta.Pictures[j].Header.Last = (PictureIdx[j] = layout.lastAt)
                  /\ meta.Pictures[j].Data = Strip(PictureBlock_Parse(body))
    /\ errsite = "dup" => mbh.Type # MetadataPicture

\* Two different pictures with a block of another type between them.
C3_Witness ==
    /\ outcome = "nil"
    /\ Len(meta.Pictures) = 2
    /\ meta.Pictures[1].Data # meta.Pictures[2].Data
    /\ PictureIdx = <<1, 3>>

\* The headers Read has stored in the Metadata.
StoredHeaders ==
    {meta[SingletonSlots[i]].Header : i \in {j \in 1..6 : meta[SingletonSlots[j]].IsPopulated}}
      \cup {meta.Pictures[i].Header : i \in 1..Len(meta.Pictures)}

\* The offset in the stream just behind the body of block k.
BlockEnd(k) == Len(StreamOf(layout.sig, SubSeq(layout.ids, 1, k), layout.lastAt))

\* C4: Read returns success exactly when it has stored a block whose header has the
\* last-block flag; it stops right behind the body of that block, whatever follows,
\* and never returns success after a block whose flag is clear.
C4_SuccessIffLastBlockStored ==
    /\ outcome = "nil" <=> \E h \in StoredHeaders : h.Last
    /\ outcome = "nil" =>
         /\ pc = "done"
         /\ mbh.Last /\ mbh \in StoredHeaders
         /\ nhdr = layout.lastAt
         /\ pos = BlockEnd(layout.lastAt)

\* Success at a flagged block that is not the first, with further blocks unread.
C4_Witness ==
    /\ outcome = "nil"
    /\ nhdr > 1 /\ nhdr < Len(layout.ids)
    /\ pos < Len(stream)

\* C5: a header whose 7-bit type code is outside 0..6 makes Read fail at header
\* decode: the body is not read, nothing is stored for the block, and the dispatch
\* never takes its default branch to carry on with the next header.
C5_UnknownTypeFailsAtHeader ==
    /\ [][(HeaderAhead /\ AheadCode \notin 0..6) =>
            /\ pc' = "done" /\ outcome' = "error" /\ errsite' = "hdr_type"
            /\ pos' = pos + 4
            /\ meta' = meta /\ mbh' = mbh /\ nhdr' = nhdr]_vars
    /\ [](pc = "done" => ~ENABLED Next)
    /\ [](pc = "dispatch" => Switch(meta, mbh, block).out # "continue")

\* Type code 7 refused with the body of its block still unread.
C5_Witness ==
    /\ outcome = "error" /\ errsite = "hdr_type"
    /\ stream[pos - 3] % 128 = 7
    /\ pos < Len(stream)
    /\ meta # EmptyMetadata

\* C6: every Read ends in a nil result or a returned error, never in a run-time panic.
C6_NeverPanics == pc = "done" => outcome \in {"nil", "error"}

\* C7: when Read returns an error the Metadata holds none of the blocks decoded
\* before the failing block.
C7_NoPartialResultOnError == outcome = "error" => meta = EmptyMetadata

\* The header Read holds is that of a StreamInfo block shorter than 34 bytes.
ShortStreaminfo == mbh.Type = MetadataStreaminfo /\ mbh.Length < 34

\* C11: a StreamInfo block whose body has fewer than 34 bytes makes Read fail with
\* a decode error and leaves the Streaminfo slot unpopulated; it is never stored
\* as a success with missing or shortened fields.
C11_ShortStreaminfoFails ==
    /\ meta.Streaminfo.IsPopulated => meta.Streaminfo.Header.Length >= 34
    /\ (pc = "done" /\ ShortStreaminfo) => outcome = "error"

-----------------------------------------------------------------------------
(* ApplicationBlock.Parse applied to bodies of every length up to AppMaxLen  *)

AppMaxLen == 48

\* Bodies of 0..AppMaxLen bytes, each length with two fillings.
AppBodies == {[i \in 1..n |-> (i * k) % 256] : n \in 0..AppMaxLen, k \in {1, 7}}

InitApp == InitRead /\ fn = "none" /\ res = NoRes /\ arg \in AppBodies

ApplyApplicationParse ==
    /\ fn = "none"
    /\ fn' = "app"
    /\ res' = ApplicationBlock_Parse(arg)
    /\ UNCHANGED <<arg, readVars>>

NextApp == ApplyApplicationParse

SpecApp == InitApp /\ [][NextApp]_vars

\* C12: an Application body that holds its 4-byte id is rejected exactly when the
\* number of bytes after the id is not a multiple of 8 (4 + 7 bytes fail, 4 + 8 and
\* 4 + 16 bytes succeed), and on success Data is exactly the bytes after the id.
C12_ApplicationRejectedIffDataNotMultipleOf8 ==
    (fn = "app" /\ Len(arg) >= 4) =>
        /\ res.out \in {"ok", "error"}
        /\ res.out = "error" <=> (Len(arg) - 4) % 8 # 0
        /\ res.out = "ok" =>
             /\ res.Id = BitsOf(SubSeq(arg, 1, 4))
             /\ res.Data = SubSeq(arg, 5, Len(arg))
             /\ Len(res.Data) = Len(arg) - 4

-----------------------------------------------------------------------------
(* CuesheetBlock.Parse applied to cuesheets of up to MaxCueTracks tracks     *)

MaxCueTracks == 3

\* A track as written to the block: its number and the sample offsets of its
\* index records; the index-point count it declares is the number of records.
Trk(number, offsets) == [number |-> number, offsets |-> offsets]

TrackKinds ==
    {Trk(1, <<0>>), Trk(2, <<0, 588>>), Trk(3, <<589>>), Trk(4, <<0, 589, 1176>>),
     Trk(0, <<0>>), Trk(170, <<>>)}

\* The 4 tracks of 1, 2, 1 and 0 index points of the cuesheet of silence-44-s.flac.
FixtureCuesheetTracks == <<Trk(1, <<0>>), Trk(2, <<0, 588>>), Trk(3, <<0>>), Trk(170, <<>>)>>

\* A sample offset below 2^16 as the 8 bytes of a big-endian u64.
U64Bytes(n) == Zeros(6) \o <<n \div 256, n % 256>>

\* The 12 bytes of index record j of a track.
IndexBytes(t, j) == U64Bytes(t.offsets[j]) \o <<j>> \o Zeros(3)

\* The 36 bytes of a track followed by its index records.
TrackBytes(t) ==
    Zeros(8) \o <<t.number>> \o Zeros(12) \o <<192>> \o Zeros(13) \o <<Len(t.offsets)>>
      \o Concat([j \in 1..Len(t.offsets) |-> IndexBytes(t, j)])

\* The 396 bytes in front of the tracks, then the tracks.
CuesheetBytes(tracks) ==
    SubSeq(CuesheetBody, 1, 395) \o <<Len(tracks)>>
      \o Concat([i \in 1..Len(tracks) |-> TrackBytes(tracks[i])])

CuesheetLayouts == SeqsUpTo(TrackKinds, MaxCueTracks) \cup {FixtureCuesheetTracks}

InitCue ==
    /\ \E tracks \in CuesheetLayouts :
         /\ layout = [sig |-> <<>>, ids |-> tracks, lastAt |-> 0]
         /\ arg = CuesheetBytes(tracks)
    /\ stream = <<>> /\ pos = 0 /\ pc = "idle"
    /\ meta = EmptyMetadata /\ mbh = NoHeader /\ block = <<>>
    /\ outcome = "none" /\ errsite = "" /\ nhdr = 0
    /\ fn = "none" /\ res = NoRes

ApplyCuesheetParse ==
    /\ fn = "none"
    /\ fn' = "cue"
    /\ res' = CuesheetBlock_Parse(arg)
    /\ UNCHANGED <<arg, readVars>>

NextCue == ApplyCuesheetParse

SpecCue == InitCue /\ [][NextCue]_vars

\* The tracks written into the cuesheet that was decoded.
CueTracks == layout.ids

\* C13: a cuesheet that holds an index record whose sample offset is not divisible
\* by 588 is rejected: CuesheetBlock.Parse returns an error.
C13_IndexOffsetNot588IsRejected ==
    (fn = "cue" /\ \E i \in 1..Len(CueTracks) :
                     \E j \in 1..Len(CueTracks[i].offsets) : CueTracks[i].offsets[j] % 588 # 0)
      => res.out = "error"

\* C14: after a successful cuesheet decode the track list has exactly TotalTracks
\* entries in stream order, and each track's index list has exactly as many
\* entries as its index-point count, in stream order.
C14_TrackAndIndexCounts ==
    (fn = "cue" /\ res.out = "ok") =>
        /\ res.TotalTracks = Len(CueTracks)
        /\ Len(res.CuesheetTracks) = res.TotalTracks
        /\ \A i \in 1..Len(res.CuesheetTracks) :
             LET t == res.CuesheetTracks[i]
             IN  /\ t.TrackNumber = CueTracks[i].number
                 /\ t.IndexPoints = Len(CueTracks[i].offsets)
                 /\ Len(t.CuesheetTrackIndexes) = t.IndexPoints
                 /\ \A j \in 1..Len(t.CuesheetTrackIndexes) :
                      /\ t.CuesheetTrackIndexes[j].IndexPoint = j
                      /\ t.CuesheetTrackIndexes[j].SampleOffset
                           = BitsOf(U64Bytes(CueTracks[i].offsets[j]))

\* C15: a cuesheet that holds a track whose number is 0 makes the decode fail
\* with a returned error.
C15_TrackNumberZeroIsRejected ==
    (fn = "cue" /\ \E i \in 1..Len(CueTracks) : CueTracks[i].number = 0)
      => res.out = "error"

-----------------------------------------------------------------------------
(* VorbisCommentBlock.Parse applied to comment blocks and to their prefixes  *)

MaxComments == 2

\* "ab" and the empty vendor string; "A=b", "xy" (no '=') and the empty comment.
Vendors == {<<>>, <<97, 98>>}
CommentKinds == {<<>>, <<65, 61, 98>>, <<120, 121>>}

\* A length or count below 256 as the 4 bytes of a little-endian u32.
U32LE(n) == <<n, 0, 0, 0>>

\* The block body of a vendor string and a list of comments.
VorbisBytes(vendor, comments) ==
    U32LE(Len(vendor)) \o vendor \o U32LE(Len(comments))
      \o Concat([i \in 1..Len(comments) |-> U32LE(Len(comments[i])) \o comments[i]])

\* Every body, whole (cut = its length) or cut short after its first cut bytes.
InitVorbis ==
    /\ \E vendor \in Vendors, comments \in SeqsUpTo(CommentKinds, MaxComments) :
         \E cut \in 0..Len(VorbisBytes(vendor, comments)) :
            /\ layout = [sig |-> vendor, ids |-> comments, lastAt |-> cut]
            /\ arg = SubSeq(VorbisBytes(vendor, comments), 1, cut)
    /\ stream = <<>> /\ pos = 0 /\ pc = "idle"
    /\ meta = EmptyMetadata /\ mbh = NoHeader /\ block = <<>>
    /\ outcome = "none" /\ errsite = "" /\ nhdr = 0
    /\ fn = "none" /\ res = NoRes

ApplyVorbisCommentParse ==
    /\ fn = "none"
    /\ fn' = "vc"
    /\ res' = VorbisCommentBlock_Parse(arg)
    /\ UNCHANGED <<arg, readVars>>

NextVorbis == ApplyVorbisCommentParse

SpecVorbis == InitVorbis /\ [][NextVorbis]_vars

\* What was written into the body that was decoded, and where it was cut.
VcVendor == layout.sig
VcComments == layout.ids
VcCut == layout.lastAt
VcWhole == VcCut = Len(VorbisBytes(VcVendor, VcComments))

\* The offset just behind the length field of comment i.
CommentStart(i) == Len(VorbisBytes(VcVendor, SubSeq(VcComments, 1, i - 1))) + 4

\* A length field that is wholly in the body and claims more bytes than follow it.
VendorOverrun == VcCut >= 4 /\ Len(VcVendor) > VcCut - 4
CommentOverrun(i) == VcCut >= CommentStart(i) /\ Len(VcComments[i]) > VcCut - CommentStart(i)

\* C16: whenever the vendor-length field or a comment's length field claims more
\* bytes than remain in the body the decode fails with an error; a vendor string
\* or comment shorter than its declared length is never returned as a success.
C16_OverrunningLengthIsShortReadError ==
    (fn = "vc" /\ (VendorOverrun \/ \E i \in 1..Len(VcComments) : CommentOverrun(i)))
      => res.out = "error"

\* C17: every length and count field is read as a little-endian u32; a whole block
\* decodes, and on every successful decode Vendor is the vendor-length bytes after
\* the first field, TotalComments is the count field, len(Comments) = TotalComments,
\* and the comments are the bytes of the stream in stream order (all that follow
\* the length field, up to the declared length), and no KEY=VALUE form is asked of them.
C17_VorbisFieldsLittleEndianVerbatim ==
    fn = "vc" =>
        /\ VcWhole => res.out = "ok"
        /\ res.out = "ok" =>
             /\ res.Vendor = VcVendor
             /\ res.TotalComments = BitsOf(<<0, 0, 0, Len(VcComments)>>)
             /\ Len(res.Comments) = Len(VcComments)
             /\ \A i \in 1..Len(VcComments) :
                  res.Comments[i]
                    = SubSeq(VcComments[i], 1, Min(Len(VcComments[i]), VcCut - CommentStart(i)))

\* A whole block of vendor "ab" with the comments "xy" and "A=b" decoded.
C17_Witness ==
    /\ fn = "vc" /\ res.out = "ok" /\ VcWhole
    /\ res.Vendor = <<97, 98>>
    /\ res.Comments = <<<<120, 121>>, <<65, 61, 98>>>>

-----------------------------------------------------------------------------
(* Seek tables                                                               *)

\* C18: a SeekTable header whose length is not a multiple of 18 ends Read with an
\* error at that header: nothing of the block is read or stored, the Metadata is
\* left as it was, and a Seektable slot that is not populated has no seek point.
C18_SeektableLengthNot18Fails ==
    /\ [][(HeaderAhead /\ AheadCode = 3 /\ AheadLength % 18 # 0) =>
            /\ pc' = "done" /\ outcome' = "error" /\ errsite' = "hdr_seeklen"
            /\ pos' = pos + 4
            /\ meta' = meta]_vars
    /\ [](~meta.Seektable.IsPopulated => meta.Seektable.Data = <<>>)
    /\ [](meta.Seektable.IsPopulated => meta.Seektable.Header.Length % 18 = 0)

\* Read refused a seek table at its header, after other blocks, with the slot empty.
C18_Witness ==
    /\ pc = "done" /\ outcome = "error" /\ errsite = "hdr_seeklen"
    /\ stream[pos - 3] % 128 = 3
    /\ meta # EmptyMetadata
    /\ ~meta.Seektable.IsPopulated /\ meta.Seektable.Data = <<>>

\* C19: the header of every accepted SeekTable block of length L (a multiple of 18
\* below 2^24) carries SeekPoints = L/18, the number of seek points of the block.
C19_SeekPointsIsLengthOver18 ==
    (HdrParsed /\ WireType(arg) = 3) =>
        /\ WireLength(arg) % 18 = 0
        /\ res.SeekPoints = WireLength(arg) \div 18

-----------------------------------------------------------------------------
(* PictureBlock.Parse applied to picture blocks                              *)

MaxBlob == 17

PicTypes == {0, 3, 4, 21}
PicMimes == {<<>>, <<105>>, <<45, 45, 62>>}
PicDescriptions == {<<>>, <<100>>}
PicBlobs == {[i \in 1..n |-> (i * k) % 256] : n \in 0..MaxBlob, k \in {1, 37}}

\* A length below 256 as the 4 bytes of a big-endian u32.
U32BE(n) == <<0, 0, 0, n>>

\* The block body of a 2 x 1 picture of 24 bits per pixel.
PictureBytes(type, mime, desc, blob) ==
    U32BE(type) \o U32BE(Len(mime)) \o mime \o U32BE(Len(desc)) \o desc
      \o U32BE(2) \o U32BE(1) \o U32BE(24) \o U32BE(0)
      \o U32BE(Len(blob)) \o blob

InitPicture ==
    /\ \E type \in PicTypes, mime \in PicMimes, desc \in PicDescriptions, blob \in PicBlobs :
         /\ layout = [sig |-> mime \o desc, ids |-> blob, lastAt |-> type]
         /\ arg = PictureBytes(type, mime, desc, blob)
    /\ stream = <<>> /\ pos = 0 /\ pc = "idle"
    /\ meta = EmptyMetadata /\ mbh = NoHeader /\ block = <<>>
    /\ outcome = "none" /\ errsite = "" /\ nhdr = 0
    /\ fn = "none" /\ res = NoRes

ApplyPictureParse ==
    /\ fn = "none"
    /\ fn' = "pic"
    /\ res' = PictureBlock_Parse(arg)
    /\ UNCHANGED <<arg, readVars>>

NextPicture == ApplyPictureParse

SpecPicture == InitPicture /\ [][NextPicture]_vars

\* The picture data that was written into the body.
PicBlob == layout.ids

\* C20: after decoding, the stored picture blob is the raw bytes that follow the
\* blob-length field, unchanged, as many as the Length field says.
C20_PictureBlobIsRawBytes ==
    fn = "pic" =>
        /\ res.out = "ok"
        /\ res.Length = BitsOf(U32BE(Len(PicBlob)))
        /\ res.PictureBlob = PicBlob
        /\ Len(res.PictureBlob) = Len(PicBlob)

-----------------------------------------------------------------------------
(* Truncated input                                                           *)

\* The bytes of the input that Read has not consumed.
Remaining == Len(stream) - pos

\* C21: when the input ends before a whole 4-byte header, or before the bytes a
\* header declares, Read returns an error at that read; the block is not handed
\* to a decoder and the Metadata is left as it was.
C21_TruncatedInputFails ==
    /\ [][(pc = "hdr" /\ Remaining < MetadataBlockHeaderLen \div 8) =>
            /\ pc' = "done" /\ outcome' = "error" /\ errsite' = "hdr_read"
            /\ meta' = meta /\ nhdr' = nhdr]_vars
    /\ [][(pc = "body" /\ Remaining < mbh.Length) =>
            /\ pc' = "done" /\ outcome' = "error" /\ errsite' = "body_read"
            /\ meta' = meta /\ block' = block]_vars
    /\ [](pc = "dispatch" => Len(block) = mbh.Length)

\* A STREAMINFO header that declares 34 bytes with 10 left in the input, refused
\* after other blocks were stored.
C21_Witness ==
    /\ pc = "done" /\ outcome = "error" /\ errsite = "body_read"
    /\ mbh.Type = MetadataStreaminfo /\ mbh.Length = 34
    /\ pos = Len(stream)
    /\ meta # EmptyMetadata /\ ~meta.Streaminfo.IsPopulated

-----------------------------------------------------------------------------
(* Two calls of Read on the same input, each on a Metadata of its own        *)

\* What a call of Read left behind: the result, the bytes consumed, the Metadata.
Snapshot == [out |-> outcome, err |-> errsite, pos |-> pos, nhdr |-> nhdr, meta |-> meta]

\* A second Read that goes on with the Metadata of the first.
ReadAgainFresh_sameMetadata ==
    /\ pc = "done" /\ fn = "none" /\ outcome \in {"nil", "error"}
    /\ fn' = "fresh"
    /\ res' = Snapshot
    /\ pos' = 0 /\ pc' = "sig"
    /\ mbh' = NoHeader /\ block' = <<>>
    /\ outcome' = "none" /\ errsite' = "" /\ nhdr' = 0
    /\ UNCHANGED <<stream, layout, arg, meta>>

\* got := new(Metadata); got.Read(f), once more on the same bytes from their start.
ReadAgainFresh ==
    /\ pc = "done" /\ fn = "none" /\ outcome \in {"nil", "error"}
    /\ fn' = "fresh"
    /\ res' = Snapshot
    /\ pos' = 0 /\ pc' = "sig"
    /\ meta' = EmptyMetadata /\ mbh' = NoHeader /\ block' = <<>>
    /\ outcome' = "none" /\ errsite' = "" /\ nhdr' = 0
    /\ UNCHANGED <<stream, layout, arg>>

NextFresh == Next \/ ReadAgainFresh

SpecFresh == Init /\ [][NextFresh]_vars

-----------------------------------------------------------------------------
(* Padding                                                                   *)

\* C23: of a Padding block of declared length L Read consumes the L body bytes and
\* no more, keeps none of them (Padding.Data stays nil) and stores the header
\* with IsPopulated = true; no other slot and no picture is changed by the block.
C23_PaddingIsSkippedNotRetained ==
    /\ [][(pc = "body" /\ mbh.Type = MetadataPadding /\ Remaining >= mbh.Length) =>
            pos' = pos + mbh.Length /\ pc' = "dispatch" /\ meta' = meta]_vars
    /\ [][(pc = "dispatch" /\ mbh.Type = MetadataPadding /\ ~meta.Padding.IsPopulated) =>
            /\ meta' = [meta EXCEPT !.Padding =
                          [Header |-> mbh, Data |-> <<>>, IsPopulated |-> TRUE]]
            /\ pos' = pos /\ pos = BlockEnd(nhdr)
            /\ pc' = IF mbh.Last THEN "done" ELSE "hdr"]_vars
    /\ [](meta.Padding.Data = <<>>)

\* A 3-byte Padding block stored behind a picture, the next header about to be read.
C23_Witness ==
    /\ pc = "hdr" /\ pos = BlockEnd(nhdr) /\ pos < Len(stream)
    /\ meta.Padding.IsPopulated /\ meta.Padding.Header.Length = 3
    /\ meta.Padding.Data = <<>>
    /\ Len(meta.Pictures) = 1
    /\ Fixtures[layout.ids[nhdr]].code = 1

-----------------------------------------------------------------------------
(* The records of a cuesheet                                                 *)

\* The bytes in front of the first track: catalog number, lead-in, reserved, count.
CuesheetPrologueLen == 128 + 8 + 259 + 1

\* Where the header of track i begins when the header of every track is hdrLen
\* bytes and each index point of a decoded track takes 12 bytes behind it.
RECURSIVE TrackStart(_, _)
TrackStart(i, hdrLen) ==
    IF i = 1 THEN CuesheetPrologueLen
    ELSE TrackStart(i - 1, hdrLen) + hdrLen + 12 * res.CuesheetTracks[i - 1].IndexPoints

\* The decoded track i is the record that begins hdrLen-strided at TrackStart:
\* its number is byte 8 of the record and index record j begins 12 (j - 1) bytes
\* behind the header.
TracksBeginAt(hdrLen) ==
    \A i \in 1..Len(res.CuesheetTracks) :
        LET t == res.CuesheetTracks[i]
            at == TrackStart(i, hdrLen)
        IN  /\ t.TrackNumber = arg[at + 9]
            /\ Len(t.CuesheetTrackIndexes) = t.IndexPoints =>
                 \A j \in 1..t.IndexPoints :
                    t.CuesheetTrackIndexes[j].IndexPoint = arg[at + hdrLen + 12 * (j - 1) + 9]

CueDecoded == fn = "cue" /\ res.out = "ok"

\* C24 as stated: track headers of 33 bytes, so that track i+1's header begins
\* 33 + 12 * (index-point count of track i) bytes after track i's header begins.
C24_TrackStrideIs33 == CueDecoded => TracksBeginAt(33)

\* C24: the decoder reads the body as sequential fixed-size records: a track header
\* of 36 bytes for each of the total-track-count tracks, each followed by one
\* 12-byte index record per index point, so that track i+1's header begins
\* 36 + 12 * (index-point count of track i) bytes after track i's, and the last
\* record ends where the body ends. Every cuesheet without a track number 0 decodes.
C24_TrackStrideIs36 ==
    fn = "cue" =>
        /\ (CueTracks # <<>> /\ \A i \in 1..Len(CueTracks) : CueTracks[i].number # 0)
             => res.out = "ok"
        /\ res.out = "ok" =>
             /\ Len(res.CuesheetTracks) = res.TotalTracks
             /\ TracksBeginAt(CuesheetTrackBlockLen \div 8)
             /\ TrackStart(res.TotalTracks + 1, 36) = Len(arg)

\* The cuesheet of 4 tracks with 1, 2, 1 and 0 index points, decoded.
C24_Witness ==
    /\ CueDecoded /\ CueTracks = FixtureCuesheetTracks
    /\ [i \in 1..4 |-> res.CuesheetTracks[i].TrackNumber] = <<1, 2, 3, 170>>
    /\ [i \in 1..4 |-> Len(res.CuesheetTracks[i].CuesheetTrackIndexes)] = <<1, 2, 1, 0>>

-----------------------------------------------------------------------------
(* Ranges of the decoded STREAMINFO values                                   *)

\* A word, most significant bit first, whose value is below 2^n.
Below2(w, n) == \A k \in 1..(Len(w) - n) : w[k] = 0

\* C25: after every successful StreaminfoBlock.Parse MinFrameSize < 2^24 and
\* MaxFrameSize < 2^24 whatever the max-block-size bits are, 0 < SampleRate < 655350,
\* Channels is in 1..8, BitsPerSample in 1..32 and TotalSamples < 2^36.
C25_StreaminfoValuesInRange ==
    (fn = "si" /\ res.out = "ok") =>
        /\ Below2(res.MinFrameSize, 24)
        /\ Below2(res.MaxFrameSize, 24)
        /\ res.SampleRate > 0 /\ res.SampleRate < 655350
        /\ res.Channels \in 1..8
        /\ res.BitsPerSample \in 1..32
        /\ Below2(res.TotalSamples, 36)

-----------------------------------------------------------------------------
(* The flag bits of a cuesheet and of its tracks                             *)

MaxFlagTracks == 2

\* First bytes of a reserved field: no flag, each flag alone, both, and the same
\* with every other bit of the byte set.
FlagBytes == {0, 64, 128, 192, 63, 127, 191, 255}

\* The bytes of a reserved field behind its first byte: all zero or all ones.
FillBytes == {0, 255}

\* A cuesheet whose reserved field begins with the byte cd, with one track without
\* index points per byte of tbs, each beginning its reserved field with that byte;
\* every other reserved byte is fill.
FlagCuesheetBytes(cd, tbs, fill) ==
    SubSeq(CuesheetBody, 1, 136) \o <<cd>> \o [k \in 1..258 |-> fill] \o <<Len(tbs)>>
      \o Concat([i \in 1..Len(tbs) |->
                   Zeros(8) \o <<i>> \o Zeros(12) \o <<tbs[i]>> \o [k \in 1..13 |-> fill] \o <<0>>])

InitFlags ==
    /\ \E cd \in FlagBytes, fill \in FillBytes :
         \E tbs \in SeqsUpTo(FlagBytes, MaxFlagTracks) \ {<<>>} :
            /\ layout = [sig |-> <<cd, fill>>, ids |-> tbs, lastAt |-> 0]
            /\ arg = FlagCuesheetBytes(cd, tbs, fill)
    /\ stream = <<>> /\ pos = 0 /\ pc = "idle"
    /\ meta = EmptyMetadata /\ mbh = NoHeader /\ block = <<>>
    /\ outcome = "none" /\ errsite = "" /\ nhdr = 0
    /\ fn = "none" /\ res = NoRes

ApplyCuesheetParseFlags ==
    /\ fn = "none"
    /\ fn' = "flags"
    /\ res' = CuesheetBlock_Parse(arg)
    /\ UNCHANGED <<arg, readVars>>

NextFlags == ApplyCuesheetParseFlags

SpecFlags == InitFlags /\ [][NextFlags]_vars

\* Bit n of a byte, bit 7 being the top bit.
WireBit(b, n) == (b \div (2 ^ n)) % 2

\* C26: IsCompactDisc is true iff bit 7 of the first byte of the cuesheet's
\* reserved field is 1, and for each track TrackType is bit 7 and PreEmphasis is
\* bit 6 of the first byte of the track's reserved field; the other bits of that
\* byte and the other reserved bytes change nothing.
C26_FlagsAreTopBitsOfFirstReservedByte ==
    fn = "flags" =>
        /\ res.out = "ok"
        /\ res.IsCompactDisc <=> WireBit(layout.sig[1], 7) = 1
        /\ Len(res.CuesheetTracks) = Len(layout.ids)
        /\ \A i \in 1..Len(layout.ids) :
             /\ res.CuesheetTracks[i].TrackType = WireBit(layout.ids[i], 7)
             /\ res.CuesheetTracks[i].PreEmphasis <=> WireBit(layout.ids[i], 6) = 1
             /\ res.CuesheetTracks[i].TrackNumber = i
             /\ res.CuesheetTracks[i].IndexPoints = 0

\* Reserved bytes 0xC0 and 0x3F among ones: type 1 with pre-emphasis, then type 0
\* without, in a cuesheet that is not a compact disc's although its low bits are set.
C26_Witness ==
    /\ fn = "flags" /\ res.out = "ok"
    /\ layout.sig = <<127, 255>> /\ layout.ids = <<192, 63>>
    /\ ~res.IsCompactDisc
    /\ res.CuesheetTracks[1].TrackType = 1 /\ res.CuesheetTracks[1].PreEmphasis
    /\ res.CuesheetTracks[2].TrackType = 0 /\ ~res.CuesheetTracks[2].PreEmphasis

-----------------------------------------------------------------------------
(* Termination                                                               *)

\* Control moves: every statement of Read leaves the place it was executed at.
Advance == pc # "done" /\ pc' \in ({"sig", "hdr", "body", "dispatch", "done"} \ {pc})

\* A call of Read that has not returned goes on to its next statement: Read is
\* sequential code, and each of its reads returns (the input is a finite file).
SpecLive == Init /\ [][Next]_vars /\ WF_pc(Advance)

\* C27: Read terminates on every finite input. Each round of the block loop
\* consumes the 4 bytes of a header and then the bytes of a body, never moving
\* back; a stream in which no header carries the last-block flag never ends in a
\* nil result, and when its bytes are used up the read of the next header fails.
C27_ReadTerminates ==
    /\ <>(pc = "done")
    /\ [][(pc # "done") => ((pos' >= pos) /\ (pos' <= Len(stream)))]_vars
    /\ [][(pc = "hdr" /\ pc' # "done") => pos' = pos + 4]_vars
    /\ [][(pc = "hdr" /\ Remaining = 0) =>
            pc' = "done" /\ outcome' = "error" /\ errsite' = "hdr_read"]_vars
    /\ []((pc = "done" /\ layout.lastAt = 0) => outcome # "nil")

\* Three blocks without a last-block flag read and stored, and then the end of
\* the input met at the fourth header.
C27_Witness ==
    /\ pc = "done" /\ outcome = "error" /\ errsite = "hdr_read"
    /\ layout.lastAt = 0 /\ nhdr = MaxBlocks
    /\ Remaining = 0

-----------------------------------------------------------------------------
(* A second call of Read on the Metadata that a first call populated         *)

AgainBlocks == 2

\* The streams of the second call: "fLaC", at most one block in front, and a final
\* block that carries the last-block flag.
AgainLayouts ==
    {q \o <<x>> : q \in {<<>>, <<"PAD">>, <<"PIC1">>, <<"SEEK">>, <<"SI">>},
                  x \in {"SI", "PAD", "APP", "SEEK", "VC", "CUE", "PIC1", "SEEKBAD", "CUTBODY"}}

\* The first call reads a stream of at most AgainBlocks blocks.
InitAgain == Init /\ Len(layout.ids) <= AgainBlocks

\* meta.Read(g) after meta.Read(f) returned nil: g is f again or another stream;
\* the receiver is the Metadata as the first call left it. arg keeps the bytes of f.
ReadAgain ==
    /\ pc = "done" /\ fn = "none" /\ outcome = "nil"
    /\ fn' = "again"
    /\ res' = Snapshot
    /\ arg' = stream
    /\ \E ids \in AgainLayouts \cup {layout.ids} :
         LET lastAt == IF ids = layout.ids THEN layout.lastAt ELSE Len(ids)
         IN  /\ layout' = [sig |-> FlacSignature, ids |-> ids, lastAt |-> lastAt]
             /\ stream' = StreamOf(FlacSignature, ids, lastAt)
    /\ pos' = 0 /\ pc' = "sig"
    /\ mbh' = NoHeader /\ block' = <<>>
    /\ outcome' = "none" /\ errsite' = "" /\ nhdr' = 0
    /\ UNCHANGED meta

NextAgain == Next \/ ReadAgain

SpecAgain == InitAgain /\ [][NextAgain]_vars

\* The singleton slots that the first call stored.
StoredByFirst == {s \in {SingletonSlots[i] : i \in 1..6} : res.meta[s].IsPopulated}

\* The stream of the second call holds, up to its last block, a block of a
\* singleton type that the first call stored.
HoldsStoredType ==
    \E k \in 1..layout.lastAt :
        /\ Fixtures[layout.ids[k]].code \in 0..5
        /\ SingletonSlots[Fixtures[layout.ids[k]].code + 1] \in StoredByFirst

-----------------------------------------------------------------------------
(* The presence flags and the stored headers                                 *)

\* C29: in every state of Read on an empty Metadata a populated singleton slot
\* holds a decoded header whose Type is the type of that slot, every entry of
\* Pictures is populated with a header of type Picture, and a slot that is not
\* populated holds no header and no decoded data.
C29_PopulatedSlotsHoldTheirType ==
    /\ \A i \in 1..6 :
         LET s == SingletonSlots[i]
         IN  IF meta[s].IsPopulated
               THEN /\ meta[s].Header.out = "ok"
                    /\ SlotOfType(meta[s].Header.Type) = s
                    /\ meta[s].Header.Type
                         = <<MetadataStreaminfo, MetadataPadding, MetadataApplication,
                             MetadataSeektable, MetadataVorbisComment, MetadataCuesheet>>[i]
               ELSE meta[s] = EmptyMetadata[s]
    /\ \A k \in 1..Len(meta.Pictures) :
         /\ meta.Pictures[k].IsPopulated
         /\ meta.Pictures[k].Header.out = "ok"
         /\ meta.Pictures[k].Header.Type = MetadataPicture

\* Read returned the error of a STREAMINFO decoder with a picture and another
\* block stored: the Streaminfo slot is as new(Metadata) left it.
C29_Witness ==
    /\ pc = "done" /\ outcome = "error" /\ mbh.Type = MetadataStreaminfo
    /\ errsite \notin {"dup", "body_read"}
    /\ meta.Streaminfo = EmptyMetadata.Streaminfo
    /\ Len(meta.Pictures) = 1
    /\ \E i \in 2..6 : meta[SingletonSlots[i]].IsPopulated

\* The stored blocks, and those among them whose header has the last-block flag.
NumStored ==
    Cardinality({i \in 1..6 : meta[SingletonSlots[i]].IsPopulated}) + Len(meta.Pictures)
NumStoredLast ==
    Cardinality({i \in 1..6 : meta[SingletonSlots[i]].IsPopulated
                                /\ meta[SingletonSlots[i]].Header.Last})
      + Cardinality({k \in 1..Len(meta.Pictures) : meta.Pictures[k].Header.Last})

\* The header Read decoded last is the header of the block it stored last.
FinalHeaderStored ==
    IF mbh.Type = MetadataPicture
      THEN meta.Pictures # <<>> /\ meta.Pictures[Len(meta.Pictures)].Header = mbh
      ELSE SlotOfType(mbh.Type) # "none" /\ meta[SlotOfType(mbh.Type)].Header = mbh

\* C30: after every successful Read on an empty Metadata exactly one stored header
\* has Last = true, it is the header of the final block read, and the number of
\* stored blocks equals the number of block headers read.
C30_OneLastHeaderAndAllBlocksStored ==
    outcome = "nil" =>
        /\ NumStoredLast = 1
        /\ mbh.Last /\ FinalHeaderStored
        /\ NumStored = nhdr
        /\ nhdr = layout.lastAt

\* Two pictures and a cuesheet read, the flag on the last of them, blocks behind it unread.
C30_Witness ==
    /\ outcome = "nil" /\ nhdr = 3 /\ NumStored = 3
    /\ Len(meta.Pictures) = 2 /\ meta.Pictures[1] = meta.Pictures[2]
    /\ meta.Cuesheet.IsPopulated /\ meta.Cuesheet.Header.Last

=============================================================================
